---- MODULE Spec2Model ----
(***************************************************************************)
(* Vehicle motion and ETA engine of backend/bus_simulator.py (BusSimulator) *)
(* together with the way backend/main.py drives it.                        *)
(*                                                                         *)
(* Geometry.  Every modelled coordinate lies on the equator: a position is *)
(* the pair <<lat, lon>> with lat = 0, and lon is an integer number of     *)
(* length units of arc.  One unit is the distance covered in one second at *)
(* 5 km/h, i.e. 1/720 km, so that the fleet's speeds (25, 30, 35 km/h)     *)
(* cover 5, 6, 7 units per second.  On the equator the haversine formula   *)
(* reduces to R * |delta lon|, which in these units is |lon2 - lon1|.      *)
(* Time is counted in whole seconds.                                       *)
(***************************************************************************)
EXTENDS Integers, Sequences, FiniteSets, TLC

VARIABLES
    coordinates,   \* self.coordinates: sequence of <<lat, lon>>
    stops,         \* self.stops: sequence of [name, lat, lon, wait_time]
    vehicles,      \* self.vehicles: sequence of vehicle records
    num_vehicles,  \* self.num_vehicles
    last_update,   \* self.last_update (seconds)
    clock,         \* the wall clock read by datetime.now() (seconds)
    requested,     \* the num_vehicles argument the simulator was built with
    dwell_log,     \* per vehicle: where and for how long it last began to dwell
    call,          \* the operation the event loop has just run (its name, arguments,
                   \* return value and the state it began in), "idle" once it returned
    updater,       \* the task running bus_position_updater: where it stands, and
                   \* the execution of update_positions it is in
    elapsed_total  \* the elapsed_seconds of all ticks so far, added up

vars == <<coordinates, stops, vehicles, num_vehicles, last_update, clock,
          requested, dwell_log, call, updater, elapsed_total>>

----------------------------------------------------------------------------
(* Bounds of the model *)

MaxVehicles == 2     \* largest num_vehicles argument tried
MaxElapsed == 2      \* longest time let pass between two ticks (seconds)
MaxClock == 6        \* the wall clock stops here

----------------------------------------------------------------------------
(* Helpers *)

Abs(x) == IF x < 0 THEN -x ELSE x
Min(a, b) == IF a < b THEN a ELSE b
Max(a, b) == IF a > b THEN a ELSE b

\* Python's 0-based indexing of a list
At(seq, i) == seq[i + 1]

\* length units per kilometre: 1 unit = 5 km/h * 1 s = 5/3600 km
UnitsPerKm == 3600 \div 5

P(lon) == <<0, lon>>

----------------------------------------------------------------------------
(* routes.json: the routes and stop tables the simulator is built with, and *)
(* the coordinate lists main.py may hand to set_route_coordinates          *)

Stop(name, lon, wait) == [name |-> name, lat |-> 0, lon |-> lon, wait_time |-> wait]

RouteFiles ==
    { [coordinates |-> <<P(0), P(10), P(50)>>,
       stops |-> <<Stop("A", 10, 2), Stop("B", 12, 3)>>],
      [coordinates |-> <<P(40), P(50), P(10)>>,
       stops |-> <<Stop("C", 50, 0), Stop("D", 90, 4)>>] }

NewRoutes ==
    { <<>>, <<P(10)>>, <<P(0), P(10)>>, <<P(40), P(50)>>, <<P(10), P(0), P(50)>>,
      <<P(40), P(50), P(70)>> }

----------------------------------------------------------------------------
(* calculate_distance: haversine distance, here between points of the      *)
(* equator, in length units                                                *)

calculate_distance(lat1, lon1, lat2, lon2) == Abs(lon2 - lon1) + Abs(lat2 - lat1)

\* distance < 0.02 km  (0.02 = 1/50)
WithinStopRadius(d) == d * 50 < UnitsPerKm
WithinEtaRadiusAsStopRadius(d) == WithinStopRadius(d)

\* distance < 0.05 km  (0.05 = 1/20)
WithinEtaRadius(d) == d * 20 < UnitsPerKm

----------------------------------------------------------------------------
(* __init__ *)

BusIdSame(i) == "bus-1"

\* f"bus-{i+1}"
BusId(i) == "bus-" \o ToString(i + 1)

NewVehicleTargetsNext(i, coords, n) ==
    LET route_len == Len(coords)
        idx == (i * route_len) \div n
    IN  [ id |-> BusId(i),
          current_index |-> IF idx + 1 < route_len THEN idx + 1 ELSE route_len - 1,
          current_position |-> At(coords, idx),
          is_at_stop |-> FALSE,
          stop_wait_remaining |-> 0,
          speed_kmh |-> 25 + ((i * 5) % 15) ]

NewVehicle(i, coords, n) ==
    LET route_len == Len(coords)
        idx == (i * route_len) \div n
    IN  [ id |-> BusId(i),
          current_index |-> IF idx < route_len THEN idx ELSE route_len - 1,
          current_position |-> At(coords, idx),
          is_at_stop |-> FALSE,
          stop_wait_remaining |-> 0,
          speed_kmh |-> 25 + ((i * 5) % 15) ]

ClampFleetNone(n) == n

\* self.num_vehicles = max(1, num_vehicles)
ClampFleet(n) == Max(1, n)

NoLog == [entry_index |-> -1, duration |-> 0, elapsed |-> 0]

Blank ==
    [ op |-> "init", elapsed_seconds |-> 0, arg |-> <<>>, vehicle_id |-> "",
      stop_name |-> "", to_stop |-> "", ret |-> <<>>,
      old_vehicles |-> <<>>, old_coordinates |-> <<>>, old_stops |-> <<>>,
      old_last_update |-> 0 ]

\* startup_event has not yet created the updater task
NoUpdater ==
    [ pc |-> "startup", executions |-> 0, advanced |-> 0, elapsed_seconds |-> 0,
      before |-> <<>>, old_last_update |-> 0 ]

Init ==
    \E file \in RouteFiles, n \in 0..MaxVehicles :
        /\ requested = n
        /\ coordinates = file.coordinates
        /\ stops = file.stops
        /\ num_vehicles = ClampFleet(n)
        /\ vehicles = [k \in 1..ClampFleet(n) |->
                          NewVehicle(k - 1, file.coordinates, ClampFleet(n))]
        /\ last_update = 0
        /\ clock = 0
        /\ dwell_log = [k \in 1..ClampFleet(n) |-> NoLog]
        /\ call = Blank
        /\ updater = NoUpdater
        /\ elapsed_total = 0

----------------------------------------------------------------------------
(* The wall clock advances between operations *)

TimePasses ==
    /\ call.op = "idle"
    /\ clock < MaxClock
    /\ clock - last_update < MaxElapsed
    /\ clock' = clock + 1
    /\ UNCHANGED <<coordinates, stops, vehicles, num_vehicles, last_update,
                   requested, dwell_log, call, updater, elapsed_total>>

(* main.py runs on one asyncio event loop and no operation of the simulator *)
(* awaits: each runs to its end, then control is back with the loop        *)
Idle == [Blank EXCEPT !.op = "idle"]

YieldsInLoopAlways == TRUE

\* whether update_positions hands control back to the event loop between two
\* vehicles: its body holds no await
YieldsInLoop == FALSE

\* the event loop may run a handler: no execution of update_positions is under
\* way, or the one under way has yielded
LoopFree == updater.pc # "in_update" \/ YieldsInLoop

Return ==
    /\ call.op # "idle"
    /\ call' = Idle
    /\ UNCHANGED <<coordinates, stops, vehicles, num_vehicles, last_update, clock,
                   requested, dwell_log, updater, elapsed_total>>

----------------------------------------------------------------------------
(* set_route_coordinates *)

RepositionedKeepsDwell(i, v, coords, n) ==
    LET route_len == Len(coords)
        idx == (i * route_len) \div Max(1, n)
        current_index == IF idx < route_len THEN idx ELSE route_len - 1
    IN  [v EXCEPT !.current_index = current_index,
                  !.current_position = At(coords, current_index)]

Repositioned(i, v, coords, n) ==
    LET route_len == Len(coords)
        idx == (i * route_len) \div Max(1, n)
        current_index == IF idx < route_len THEN idx ELSE route_len - 1
    IN  [v EXCEPT !.current_index = current_index,
                  !.current_position = At(coords, current_index),
                  !.is_at_stop = FALSE,
                  !.stop_wait_remaining = 0]

RouteAfterReplace(old, new) == IF new = <<>> THEN old ELSE new

FleetAfterReplaceResetsFirst(vs, new) ==
    [k \in 1..Len(vs) |->
        IF new = <<>>
        THEN [vs[k] EXCEPT !.is_at_stop = FALSE, !.stop_wait_remaining = 0]
        ELSE Repositioned(k - 1, vs[k], new, Len(vs))]

FleetAfterReplace(vs, new) ==
    IF new = <<>>
    THEN vs
    ELSE [k \in 1..Len(vs) |-> Repositioned(k - 1, vs[k], new, Len(vs))]

set_route_coordinates(new) ==
    /\ call.op = "idle"
    /\ coordinates' = RouteAfterReplace(coordinates, new)
    /\ vehicles' = FleetAfterReplace(vehicles, new)
    /\ call' = [Blank EXCEPT !.op = "set_route_coordinates", !.arg = new,
                             !.old_vehicles = vehicles,
                             !.old_coordinates = coordinates,
                             !.old_stops = stops,
                             !.old_last_update = last_update]
    /\ UNCHANGED <<stops, num_vehicles, last_update, clock, requested, dwell_log, updater, elapsed_total>>

----------------------------------------------------------------------------
(* update_positions *)

NextIndexUnclamped(current_index, route_len) == current_index + 1

NextIndexWraps(current_index, route_len) == (current_index + 1) % route_len

\* min(current_index + 1, route_len - 1)
NextIndex(current_index, route_len) == Min(current_index + 1, route_len - 1)

MoveDistanceWholeKmPerSecond(speed_kmh, elapsed_seconds) ==
    (speed_kmh \div 3600) * elapsed_seconds * UnitsPerKm

MoveDistanceAtLeastOneSecond(speed_kmh, elapsed_seconds) ==
    (speed_kmh * Max(1, elapsed_seconds) * UnitsPerKm) \div 3600

\* (speed_kmh / 3600) * elapsed_seconds, a distance in km, in length units
MoveDistance(speed_kmh, elapsed_seconds) ==
    (speed_kmh * elapsed_seconds * UnitsPerKm) \div 3600

StopsNearWide(target, stps) ==
    SelectSeq(stps, LAMBDA s :
        WithinEtaRadius(calculate_distance(target[1], target[2], s.lat, s.lon)))

StopsNearLastFirst(target, stps) ==
    LET near == SelectSeq(stps, LAMBDA s :
                    WithinStopRadius(calculate_distance(target[1], target[2],
                                                        s.lat, s.lon)))
    IN  [k \in 1..Len(near) |-> near[Len(near) + 1 - k]]

\* the stops within 0.02 km of the target, in configured order
StopsNear(target, stps) ==
    SelectSeq(stps, LAMBDA s :
        WithinStopRadius(calculate_distance(target[1], target[2], s.lat, s.lon)))

\* current + (target - current) * ratio, ratio = move / distance
Interpolate(current, target, move, distance) ==
    << current[1] + ((target[1] - current[1]) * move) \div distance,
       current[2] + ((target[2] - current[2]) * move) \div distance >>

MovedPositionNoSnap(current, target, move, distance) ==
    Interpolate(current, target, move, distance)

\* the position after a tick of a vehicle that is away from its target
MovedPosition(current, target, move, distance) ==
    IF move >= distance THEN target ELSE Interpolate(current, target, move, distance)

DwellOverStrict(remaining) == remaining < 0

\* "if vehicle['stop_wait_remaining'] <= 0"
DwellOver(remaining) == remaining <= 0

AfterDwellTickMovesOn(v, elapsed_seconds, coords) ==
    LET remaining == v.stop_wait_remaining - elapsed_seconds
        next == NextIndex(v.current_index, Len(coords))
        current == v.current_position
        target == At(coords, next)
        distance == calculate_distance(current[1], current[2], target[1], target[2])
    IN  IF DwellOver(remaining)
        THEN [v EXCEPT !.stop_wait_remaining = remaining,
                       !.is_at_stop = FALSE,
                       !.current_index = next,
                       !.current_position =
                           IF distance = 0 THEN current
                           ELSE MovedPosition(current, target,
                                              MoveDistance(v.speed_kmh, 0 - remaining),
                                              distance)]
        ELSE [v EXCEPT !.stop_wait_remaining = remaining]

\* the tick of a vehicle with is_at_stop set: the dwell runs down, and at or
\* below 0 the vehicle is released towards the next coordinate; "continue"
AfterDwellTick(v, elapsed_seconds, coords) ==
    LET remaining == v.stop_wait_remaining - elapsed_seconds IN
    IF DwellOver(remaining)
    THEN [v EXCEPT !.stop_wait_remaining = remaining,
                   !.is_at_stop = FALSE,
                   !.current_index = NextIndex(v.current_index, Len(coords))]
    ELSE [v EXCEPT !.stop_wait_remaining = remaining]

StandingOnTargetDwells(v, coords, stps) ==
    LET near == StopsNear(At(coords, v.current_index), stps)
    IN  IF near # <<>>
        THEN [v EXCEPT !.is_at_stop = TRUE, !.stop_wait_remaining = near[1].wait_time]
        ELSE [v EXCEPT !.current_index = NextIndex(v.current_index, Len(coords))]

\* "if distance_to_target == 0": the index moves on and nothing else happens
StandingOnTarget(v, coords, stps) ==
    [v EXCEPT !.current_index = NextIndex(v.current_index, Len(coords))]

AdvanceVehicle(v, elapsed_seconds, coords, stps) ==
    LET route_len == Len(coords) IN
    IF v.is_at_stop
    THEN AfterDwellTick(v, elapsed_seconds, coords)
    ELSE IF v.current_index >= route_len
    THEN [v EXCEPT !.current_index = 0, !.current_position = At(coords, 0)]
    ELSE
    LET distance_to_move == MoveDistance(v.speed_kmh, elapsed_seconds)
        target == At(coords, v.current_index)
        current == v.current_position
        distance_to_target ==
            calculate_distance(current[1], current[2], target[1], target[2])
        near == StopsNear(target, stps)
    IN  IF distance_to_target = 0
        THEN StandingOnTarget(v, coords, stps)
        ELSE IF distance_to_move >= distance_to_target
        THEN IF near # <<>>
             THEN [v EXCEPT !.current_position =
                                MovedPosition(current, target, distance_to_move,
                                              distance_to_target),
                            !.is_at_stop = TRUE,
                            !.stop_wait_remaining = near[1].wait_time]
             ELSE [v EXCEPT !.current_position =
                                MovedPosition(current, target, distance_to_move,
                                              distance_to_target),
                            !.current_index = NextIndex(v.current_index, route_len)]
        ELSE [v EXCEPT !.current_position =
                           MovedPosition(current, target, distance_to_move,
                                         distance_to_target)]

\* bookkeeping of the model, not of the program: when a vehicle begins to
\* dwell, note its index and the dwell duration; while it dwells, add up the
\* elapsed time of the ticks
LogAfterTick(log, old, new, elapsed_seconds) ==
    IF old.is_at_stop
    THEN [log EXCEPT !.elapsed = @ + elapsed_seconds]
    ELSE IF new.is_at_stop
    THEN [entry_index |-> new.current_index,
          duration |-> new.stop_wait_remaining, elapsed |-> 0]
    ELSE log

StampKept(now, last) == last

\* "self.last_update = now"
StampAfterTick(now, last) == now

update_positions ==
    LET now == clock
        elapsed_seconds == now - last_update
        after == [k \in 1..Len(vehicles) |->
                     AdvanceVehicle(vehicles[k], elapsed_seconds, coordinates, stops)]
    IN  /\ call.op = "idle"
        /\ last_update' = StampAfterTick(now, last_update)
        /\ vehicles' = after
        /\ dwell_log' = [k \in 1..Len(vehicles) |->
                            LogAfterTick(dwell_log[k], vehicles[k], after[k],
                                         elapsed_seconds)]
        /\ call' = [Blank EXCEPT !.op = "update_positions",
                                 !.elapsed_seconds = elapsed_seconds,
                                 !.old_vehicles = vehicles,
                                 !.old_coordinates = coordinates,
                                 !.old_stops = stops,
                                 !.old_last_update = last_update]
        /\ elapsed_total' = elapsed_total + elapsed_seconds
        /\ UNCHANGED <<coordinates, stops, num_vehicles, clock, requested, updater>>

----------------------------------------------------------------------------
(* Queries.  A Python dict is a record; {} is the record with no field;    *)
(* Python's None is the string "None".  Rounded numbers are integers in    *)
(* the unit of their last kept decimal.                                    *)

EmptyDict == [k \in {} |-> 0]
None == "None"

\* round(n / m) for m > 0, ties to even as Python's round
RoundDiv(n, m) ==
    LET q == n \div m
        r == n % m
    IN  IF 2 * r < m THEN q
        ELSE IF 2 * r > m THEN q + 1
        ELSE IF q % 2 = 0 THEN q ELSE q + 1

DistanceTo(pos, s) == calculate_distance(pos[1], pos[2], s.lat, s.lon)

\* find_nearest_stop's scan: the index of the first stop at minimum distance
\* from pos, 0 when there is no stop
RECURSIVE NearestFrom(_, _, _, _)
NearestFrom(pos, stps, k, best) ==
    IF k > Len(stps) THEN best
    ELSE IF best = 0 \/ DistanceTo(pos, stps[k]) < DistanceTo(pos, stps[best])
         THEN NearestFrom(pos, stps, k + 1, k)
         ELSE NearestFrom(pos, stps, k + 1, best)

find_nearest_stop ==
    IF vehicles = <<>> THEN EmptyDict
    ELSE LET pos == vehicles[1].current_position
             best == NearestFrom(pos, stops, 1, 0)
         IN  IF best = 0 THEN EmptyDict
             ELSE [name |-> stops[best].name, lat |-> stops[best].lat,
                   lon |-> stops[best].lon, wait_time |-> stops[best].wait_time,
                   distance |-> DistanceTo(pos, stops[best])]

\* the head of a sequence as a sequence of length <= 1: what next(..., None)
\* takes from a generator
Head1(hits) == IF hits = <<>> THEN <<>> ELSE <<hits[1]>>

NotFoundVehicle == [eta_minutes |-> None, error |-> "Vehicle not found"]
NotFoundStop == [eta_minutes |-> None, error |-> "Stop not found"]
Unreachable == [eta_minutes |-> None, error |-> "Stop not on remaining route"]
EmptyFleet == [eta_minutes |-> None, error |-> "No vehicles available"]

\* the walk along the coordinates from index i: whether a coordinate within
\* 0.05 km of the stop is met, and the distance accumulated until then
RECURSIVE Walk(_, _, _, _)
Walk(coords, target_stop, i, total_distance) ==
    IF i >= Len(coords) THEN [found |-> FALSE, distance |-> total_distance]
    ELSE IF WithinEtaRadius(DistanceTo(At(coords, i), target_stop))
    THEN [found |-> TRUE, distance |-> total_distance]
    ELSE Walk(coords, target_stop, i + 1,
              IF i + 1 < Len(coords)
              THEN total_distance
                   + calculate_distance(At(coords, i)[1], At(coords, i)[2],
                                        At(coords, i + 1)[1], At(coords, i + 1)[2])
              ELSE total_distance)

RECURSIVE SumWaits(_, _, _, _)
\* seconds of wait_time of the stops s with 0.05 km < distance(pos, s) < target_dist
SumWaits(pos, stps, target_dist, k) ==
    IF k > Len(stps) THEN 0
    ELSE (IF /\ DistanceTo(pos, stps[k]) * 20 > UnitsPerKm
             /\ DistanceTo(pos, stps[k]) < target_dist
          THEN stps[k].wait_time ELSE 0)
         + SumWaits(pos, stps, target_dist, k + 1)

\* the seconds of waiting that enter total_minutes: the wait of the stops in
\* between plus vehicle.get('stop_wait_remaining', 0)
WaitSeconds(vehicle, target_stop) ==
    SumWaits(vehicle.current_position, stops,
             DistanceTo(vehicle.current_position, target_stop), 1)
    + vehicle.stop_wait_remaining

\* total_minutes = d / (12 * speed_kmh) + w / 60 = (5d + w * speed_kmh) / (60 * speed_kmh)
EtaResult(vehicle, target_stop, total_distance) ==
    LET w == WaitSeconds(vehicle, target_stop)
        numer == 5 * total_distance + w * vehicle.speed_kmh
    IN  [ eta_minutes |-> RoundDiv(numer, 6 * vehicle.speed_kmh),   \* tenths of a minute
          eta_time |-> ((clock * vehicle.speed_kmh + numer)
                            \div (60 * vehicle.speed_kmh)) % 1440,  \* minute of the day
          distance_km |-> RoundDiv(total_distance * 1000, UnitsPerKm) ]  \* thousandths of a km

\* next((v for v in self.vehicles if v['id'] == vehicle_id), None)
FindVehicle(vehicle_id) == Head1(SelectSeq(vehicles, LAMBDA v : v.id = vehicle_id))

FindStopOrFirst(stop_name) ==
    LET hit == Head1(SelectSeq(stops, LAMBDA s : s.name = stop_name))
    IN  IF hit = <<>> /\ stops # <<>> THEN <<stops[1]>> ELSE hit

\* next((s for s in self.stops if s['name'] == stop_name), None)
FindStop(stop_name) == Head1(SelectSeq(stops, LAMBDA s : s.name = stop_name))

calculate_eta_for_vehicle(vehicle_id, stop_name) ==
    LET found_vehicle == FindVehicle(vehicle_id)
        found_stop == FindStop(stop_name)
    IN  IF found_vehicle = <<>> THEN NotFoundVehicle
        ELSE IF found_stop = <<>> THEN NotFoundStop
        ELSE
        LET vehicle == found_vehicle[1]
            target_stop == found_stop[1]
            route_len == Len(coordinates)
            cur_idx == vehicle.current_index
            start == IF cur_idx < route_len
                     THEN calculate_distance(vehicle.current_position[1],
                                             vehicle.current_position[2],
                                             At(coordinates, cur_idx)[1],
                                             At(coordinates, cur_idx)[2])
                     ELSE 0
            walk == Walk(coordinates, target_stop, cur_idx, start)
        IN  IF ~walk.found THEN Unreachable
            ELSE EtaResult(vehicle, target_stop, walk.distance)

calculate_eta_to_stop(stop_name) ==
    IF vehicles = <<>> THEN EmptyFleet
    ELSE calculate_eta_for_vehicle(vehicles[1].id, stop_name)

get_status ==
    IF vehicles = <<>> THEN EmptyDict
    ELSE LET v == vehicles[1]
             nearest_stop == find_nearest_stop
         IN  [ position |-> [lat |-> v.current_position[1],
                             lon |-> v.current_position[2]],
               is_moving |-> ~v.is_at_stop,
               nearest_stop |-> IF nearest_stop # EmptyDict
                                THEN nearest_stop.name ELSE None,
               distance_to_stop |-> IF nearest_stop # EmptyDict
                                    THEN RoundDiv(nearest_stop.distance * 100, UnitsPerKm)
                                    ELSE -1,    \* None
               current_time |-> clock,
               speed_kmh |-> IF ~v.is_at_stop THEN v.speed_kmh ELSE 0 ]

get_all_eta ==
    [k \in 1..Len(stops) |->
        [stop_name |-> stops[k].name] @@ calculate_eta_to_stop(stops[k].name)]

get_vehicles ==
    [k \in 1..Len(vehicles) |->
        [ id |-> vehicles[k].id,
          position |-> [lat |-> vehicles[k].current_position[1],
                        lon |-> vehicles[k].current_position[2]],
          is_at_stop |-> vehicles[k].is_at_stop,
          speed_kmh |-> vehicles[k].speed_kmh,
          current_index |-> vehicles[k].current_index ]]

\* the 0-based ordinal of the first stop with this name, -1 when there is none
StopOrdinal(stop_name) ==
    IF \E k \in 1..Len(stops) : stops[k].name = stop_name
    THEN (CHOOSE k \in 1..Len(stops) :
             /\ stops[k].name = stop_name
             /\ \A j \in 1..(k - 1) : stops[j].name # stop_name) - 1
    ELSE -1

BeforeDestinationStrictly(current_index, to_idx) == current_index < to_idx

\* "if v.get('current_index', 0) <= to_idx"
BeforeDestination(current_index, to_idx) == current_index <= to_idx

get_vehicles_for_stops(from_stop, to_stop) ==
    LET from_idx == StopOrdinal(from_stop)
        to_idx == StopOrdinal(to_stop)
        summary(v) == [ id |-> v.id,
                        position |-> [lat |-> v.current_position[1],
                                      lon |-> v.current_position[2]],
                        current_index |-> v.current_index ]
        matched == SelectSeq(vehicles,
                             LAMBDA v : BeforeDestination(v.current_index, to_idx))
    IN  IF from_idx = -1 \/ to_idx = -1 THEN <<>>
        ELSE IF from_idx >= to_idx THEN <<>>
        ELSE [k \in 1..Len(matched) |-> summary(matched[k])]

\* the names and ids the query handlers of main.py are called with: those
\* configured, and one that matches nothing
AskedStops == {stops[k].name : k \in 1..Len(stops)} \cup {"X"}
AskedVehicles == {"bus-2", "bus-9"}

StopsAnnotatedInPlace(op, ret) ==
    IF op = "find_nearest_stop" /\ ret # EmptyDict
    THEN [k \in 1..Len(stops) |->
             IF k = NearestFrom(vehicles[1].current_position, stops, 1, 0)
             THEN ret ELSE stops[k]]
    ELSE stops

\* self.stops once a query has returned ret: find_nearest_stop hands out a
\* new dict, {**nearest_stop, 'distance': min_distance}, and the other queries
\* build their results from new dicts and lists as well
StopsAfter(op, ret) == stops

Query(op, vehicle_id, stop_name, to_stop, ret) ==
    /\ call.op = "idle"
    /\ LoopFree
    /\ stops' = StopsAfter(op, ret)
    /\ call' = [Blank EXCEPT !.op = op, !.vehicle_id = vehicle_id,
                             !.stop_name = stop_name, !.to_stop = to_stop,
                             !.ret = ret,
                             !.old_vehicles = vehicles,
                             !.old_coordinates = coordinates,
                             !.old_stops = stops,
                             !.old_last_update = last_update]
    /\ UNCHANGED <<coordinates, vehicles, num_vehicles, last_update, clock,
                   requested, dwell_log, updater, elapsed_total>>

GetStatus == Query("get_status", "", "", "", get_status)
FindNearestStop == Query("find_nearest_stop", "", "", "", find_nearest_stop)
EtaToStop(stop_name) ==
    Query("calculate_eta_to_stop", "", stop_name, "", calculate_eta_to_stop(stop_name))
EtaForVehicle(vehicle_id, stop_name) ==
    Query("calculate_eta_for_vehicle", vehicle_id, stop_name, "",
          calculate_eta_for_vehicle(vehicle_id, stop_name))
GetAllEta == Query("get_all_eta", "", "", "", get_all_eta)
GetVehicles == Query("get_vehicles", "", "", "", get_vehicles)
VehiclesForStops(from_stop, to_stop) ==
    Query("get_vehicles_for_stops", "", from_stop, to_stop,
          get_vehicles_for_stops(from_stop, to_stop))

----------------------------------------------------------------------------

Next ==
    \/ TimePasses
    \/ Return
    \/ update_positions
    \/ \E new \in NewRoutes : set_route_coordinates(new)
    \/ GetStatus
    \/ FindNearestStop
    \/ \E s \in AskedStops : EtaToStop(s)
    \/ \E id \in AskedVehicles, s \in AskedStops : EtaForVehicle(id, s)
    \/ GetAllEta
    \/ GetVehicles
    \/ \E f \in AskedStops, t \in AskedStops : VehiclesForStops(f, t)

Spec == Init /\ [][Next]_vars

----------------------------------------------------------------------------
(* The updater of main.py for ever: bus_position_updater loops              *)
(* "update_positions, sleep 5 s", so ticks never cease and time passes      *)
(* between them.  The route is not replaced (main.py replaces it at startup *)
(* only) and queries, which change nothing, are left out.  The program reads *)
(* the clock only to subtract last_update from it, so the seconds may be    *)
(* counted from the last tick: ShiftEpoch moves the origin of time there,   *)
(* which lets the clock run for ever below MaxClock.                        *)

ShiftEpoch ==
    /\ call.op = "idle"
    /\ last_update > 0
    /\ clock' = clock - last_update
    /\ last_update' = 0
    /\ elapsed_total' = elapsed_total - last_update
    /\ UNCHANGED <<coordinates, stops, vehicles, num_vehicles, requested,
                   dwell_log, call, updater>>

LiveNext ==
    \/ TimePasses
    \/ Return
    \/ update_positions
    \/ ShiftEpoch

LiveSpec ==
    /\ Init
    /\ [][LiveNext]_vars
    /\ WF_vars(Return)
    /\ SF_vars(TimePasses)
    /\ SF_vars(update_positions)
    /\ SF_vars(ShiftEpoch)

----------------------------------------------------------------------------
(* main.py on its event loop, vehicle by vehicle.  startup_event may replace *)
(* the route, then creates the one task that runs bus_position_updater; the  *)
(* task calls update_positions, which reads the clock, stamps last_update    *)
(* and advances the vehicles one after the other, then broadcasts and sleeps *)
(* (awaiting both), and starts over.  Request handlers run when the loop is  *)
(* free.                                                                     *)

CreateUpdater ==
    /\ call.op = "idle"
    /\ updater.pc = "startup"
    /\ updater' = [updater EXCEPT !.pc = "ready"]
    /\ UNCHANGED <<coordinates, stops, vehicles, num_vehicles, last_update, clock,
                   requested, dwell_log, call, elapsed_total>>

BeginUpdate ==
    /\ call.op = "idle"
    /\ updater.pc = "ready"
    /\ last_update' = StampAfterTick(clock, last_update)
    /\ updater' = [ pc |-> "in_update",
                    executions |-> updater.executions + 1,
                    advanced |-> 0,
                    elapsed_seconds |-> clock - last_update,
                    before |-> vehicles,
                    old_last_update |-> last_update ]
    /\ UNCHANGED <<coordinates, stops, vehicles, num_vehicles, clock, requested,
                   dwell_log, call, elapsed_total>>

AdvanceNext ==
    /\ call.op = "idle"
    /\ updater.pc = "in_update"
    /\ updater.advanced < Len(vehicles)
    /\ LET k == updater.advanced + 1
           after == AdvanceVehicle(vehicles[k], updater.elapsed_seconds,
                                   coordinates, stops)
       IN  /\ vehicles' = [vehicles EXCEPT ![k] = after]
           /\ dwell_log' = [dwell_log EXCEPT
                               ![k] = LogAfterTick(@, vehicles[k], after,
                                                   updater.elapsed_seconds)]
    /\ updater' = [updater EXCEPT !.advanced = @ + 1]
    /\ UNCHANGED <<coordinates, stops, num_vehicles, last_update, clock, requested,
                   call, elapsed_total>>

EndUpdate ==
    /\ call.op = "idle"
    /\ updater.pc = "in_update"
    /\ updater.advanced = Len(vehicles)
    /\ call' = [Blank EXCEPT !.op = "update_positions",
                             !.elapsed_seconds = updater.elapsed_seconds,
                             !.old_vehicles = updater.before,
                             !.old_coordinates = coordinates,
                             !.old_stops = stops,
                             !.old_last_update = updater.old_last_update]
    /\ elapsed_total' = elapsed_total + updater.elapsed_seconds
    /\ updater' = [updater EXCEPT !.pc = "sleeping", !.executions = @ - 1]
    /\ UNCHANGED <<coordinates, stops, vehicles, num_vehicles, last_update, clock,
                   requested, dwell_log>>

Wake ==
    /\ call.op = "idle"
    /\ updater.pc = "sleeping"
    /\ updater' = [updater EXCEPT !.pc = "ready"]
    /\ UNCHANGED <<coordinates, stops, vehicles, num_vehicles, last_update, clock,
                   requested, dwell_log, call, elapsed_total>>

StartupRoute(new) ==
    /\ updater.pc = "startup"
    /\ set_route_coordinates(new)

Serving == updater.pc # "startup"

EventLoopNext ==
    \/ TimePasses
    \/ Return
    \/ \E new \in NewRoutes : StartupRoute(new)
    \/ CreateUpdater
    \/ BeginUpdate
    \/ AdvanceNext
    \/ EndUpdate
    \/ Wake
    \/ Serving /\ GetStatus
    \/ Serving /\ FindNearestStop
    \/ \E s \in AskedStops : Serving /\ EtaToStop(s)
    \/ \E id \in AskedVehicles, s \in AskedStops : Serving /\ EtaForVehicle(id, s)
    \/ Serving /\ GetAllEta
    \/ Serving /\ GetVehicles
    \/ \E f \in AskedStops, t \in AskedStops : Serving /\ VehiclesForStops(f, t)

EventLoopSpec == Init /\ [][EventLoopNext]_vars

----------------------------------------------------------------------------
(* The scenario of the specification's section 8: the route [c0, c1, c2], one *)
(* stop on c1 with a dwell of 30 s, one vehicle (25 km/h = 5 units/s) that    *)
(* starts at index 0 on c0, the segment c0 -> c1 being 50 units long (10 s),  *)
(* and a tick of update_positions every second, ScenarioEnd seconds long.     *)

ScenarioEnd == 45

ScenarioInit ==
    /\ requested = 1
    /\ coordinates = <<P(0), P(50), P(100)>>
    /\ stops = <<Stop("S", 50, 30)>>
    /\ num_vehicles = ClampFleet(1)
    /\ vehicles = [k \in 1..ClampFleet(1) |->
                      NewVehicle(k - 1, <<P(0), P(50), P(100)>>, ClampFleet(1))]
    /\ last_update = 0
    /\ clock = 0
    /\ dwell_log = [k \in 1..ClampFleet(1) |-> NoLog]
    /\ call = Blank
    /\ updater = NoUpdater
    /\ elapsed_total = 0

ScenarioSecond ==
    /\ call.op = "idle"
    /\ clock = last_update
    /\ clock < ScenarioEnd
    /\ clock' = clock + 1
    /\ UNCHANGED <<coordinates, stops, vehicles, num_vehicles, last_update,
                   requested, dwell_log, call, updater, elapsed_total>>

ScenarioTick ==
    /\ clock = last_update + 1
    /\ update_positions

ScenarioNext ==
    \/ ScenarioSecond
    \/ ScenarioTick
    \/ Return

ScenarioSpec == ScenarioInit /\ [][ScenarioNext]_vars

----------------------------------------------------------------------------
(* Properties *)

Fleet == 1..Len(vehicles)
Ticked == call.op = "update_positions"
Replaced == call.op = "set_route_coordinates"
Before(k) == call.old_vehicles[k]
Target(v) == At(coordinates, v.current_index)
Traveling(v) == ~v.is_at_stop
OnTarget(v) == v.current_position = Target(v)

\* C1: in every state (after construction, after every tick and after every
\* route replacement) each vehicle's current_index is at least 0 and at most
\* len(coordinates) - 1.
C1_IndexInRange ==
    \A k \in Fleet :
        /\ 0 <= vehicles[k].current_index
        /\ vehicles[k].current_index <= Len(coordinates) - 1

\* a tick has just run on a vehicle that was Traveling and standing on the last
\* coordinate of a route of several coordinates: the index had to be clamped
C1_Witness ==
    /\ Ticked
    /\ Len(coordinates) > 1
    /\ \E k \in Fleet :
          /\ Traveling(Before(k))
          /\ Before(k).current_index = Len(coordinates) - 1
          /\ Before(k).current_position = At(coordinates, Len(coordinates) - 1)
          /\ vehicles[k].current_index = Len(coordinates) - 1

SameMotionState(v, w) ==
    /\ v.current_position = w.current_position
    /\ v.current_index = w.current_index
    /\ v.is_at_stop = w.is_at_stop
    /\ v.stop_wait_remaining = w.stop_wait_remaining

\* C2 as stated: a tick whose elapsed time is 0 leaves every vehicle's
\* current_position, current_index, is_at_stop and stop_wait_remaining unchanged.
C2_ZeroTickChangesNothing ==
    (Ticked /\ call.elapsed_seconds = 0) =>
        \A k \in Fleet : SameMotionState(vehicles[k], Before(k))

\* C2 as amended: a tick whose elapsed time is 0 leaves every vehicle's
\* current_position and stop_wait_remaining unchanged; current_index and
\* is_at_stop are unchanged too, except that a Traveling vehicle standing on its
\* target coordinate gets current_index = min(current_index + 1, len - 1), and
\* a Dwelling vehicle whose dwell-remaining is 0 becomes Traveling with
\* current_index = min(current_index + 1, len - 1).
C2_ZeroTick ==
    (Ticked /\ call.elapsed_seconds = 0) =>
        \A k \in Fleet :
            LET old == Before(k)
                new == vehicles[k]
                bumped == IF old.current_index + 1 <= Len(coordinates) - 1
                          THEN old.current_index + 1 ELSE Len(coordinates) - 1
            IN  /\ new.current_position = old.current_position
                /\ new.stop_wait_remaining = old.stop_wait_remaining
                /\ IF old.is_at_stop /\ old.stop_wait_remaining <= 0
                   THEN ~new.is_at_stop /\ new.current_index = bumped
                   ELSE IF ~old.is_at_stop
                           /\ old.current_position = At(coordinates, old.current_index)
                   THEN ~new.is_at_stop /\ new.current_index = bumped
                   ELSE /\ new.is_at_stop = old.is_at_stop
                        /\ new.current_index = old.current_index

\* a tick with elapsed time 0 has just run while one vehicle was Dwelling with
\* dwell-remaining 0
C2_Witness ==
    /\ Ticked
    /\ call.elapsed_seconds = 0
    /\ \E k \in Fleet : Before(k).is_at_stop /\ Before(k).stop_wait_remaining = 0

\* C3 as stated: a vehicle that entered Dwelling with dwell duration D, at any
\* route index, stays Dwelling while the elapsed time of the ticks since then
\* sums to less than D, and on the first tick at which the sum is at least D it
\* is Traveling with current_index exactly 1 greater than when it entered
\* Dwelling.
C3_DwellThenAdvanceByOne ==
    Ticked =>
        \A k \in Fleet :
            Before(k).is_at_stop =>
                IF dwell_log[k].elapsed < dwell_log[k].duration
                THEN vehicles[k].is_at_stop
                ELSE /\ ~vehicles[k].is_at_stop
                     /\ vehicles[k].current_index = dwell_log[k].entry_index + 1

\* C3 as amended: a vehicle that entered Dwelling with dwell duration D stays
\* Dwelling while the elapsed time of the ticks since then sums to less than D,
\* and on the first tick at which the sum is at least D it is Traveling with
\* current_index 1 greater than when it entered Dwelling, except that a vehicle
\* that entered Dwelling at the last route index keeps that index.
C3_DwellThenAdvanceClamped ==
    Ticked =>
        \A k \in Fleet :
            Before(k).is_at_stop =>
                IF dwell_log[k].elapsed < dwell_log[k].duration
                THEN /\ vehicles[k].is_at_stop
                     /\ vehicles[k].current_index = dwell_log[k].entry_index
                ELSE /\ ~vehicles[k].is_at_stop
                     /\ vehicles[k].current_index =
                           (IF dwell_log[k].entry_index = Len(coordinates) - 1
                            THEN dwell_log[k].entry_index
                            ELSE dwell_log[k].entry_index + 1)

\* a vehicle that dwelt at the last route index for a positive duration, over
\* more than one tick, has just become Traveling
C3_Witness ==
    /\ Ticked
    /\ \E k \in Fleet :
          /\ Before(k).is_at_stop
          /\ ~vehicles[k].is_at_stop
          /\ dwell_log[k].duration > 0
          /\ dwell_log[k].elapsed > call.elapsed_seconds
          /\ dwell_log[k].entry_index = Len(coordinates) - 1
          /\ Len(coordinates) > 1

AtLastCoordinate(k) ==
    /\ k \in Fleet
    /\ vehicles[k].current_index = Len(coordinates) - 1
    /\ vehicles[k].current_position = At(coordinates, Len(coordinates) - 1)

\* C4: a vehicle that has reached the last route coordinate (current_index =
\* len(coordinates) - 1, standing on that coordinate) is, as ticks with positive
\* elapsed time go on, eventually given current_index 0: the route wraps.
C4_WrapsToStart ==
    \A k \in 1..MaxVehicles :
        AtLastCoordinate(k) ~> (k \in Fleet /\ vehicles[k].current_index = 0)

\* in ScenarioSpec every tick takes 1 s, so the ticks run so far are last_update
TicksDone == last_update

\* C5 as stated: in the scenario, after the 10th tick the vehicle is Dwelling on
\* c1 with dwell-remaining 30, and after 30 further ticks it is Traveling with
\* current_index 2.
C5_TenTicksThenThirty ==
    /\ (Ticked /\ TicksDone = 10) =>
          /\ vehicles[1].is_at_stop
          /\ vehicles[1].current_position = coordinates[2]
          /\ vehicles[1].stop_wait_remaining = 30
    /\ (Ticked /\ TicksDone = 40) =>
          /\ ~vehicles[1].is_at_stop
          /\ vehicles[1].current_index = 2

\* C5 as amended: the first tick only moves the index from 0 to 1, so it is
\* after the 11th tick that the vehicle is Dwelling on c1 with dwell-remaining
\* 30 (after the 10th it is Traveling, 5 units short of c1); it is Dwelling
\* until the 40th tick, and after 30 further ticks, the 41st, it is Traveling
\* with current_index 2.
C5_ElevenTicksThenThirty ==
    /\ (Ticked /\ TicksDone = 10) =>
          /\ ~vehicles[1].is_at_stop
          /\ vehicles[1].current_position = P(45)
    /\ (Ticked /\ TicksDone = 11) =>
          /\ vehicles[1].is_at_stop
          /\ vehicles[1].current_position = coordinates[2]
          /\ vehicles[1].current_index = 1
          /\ vehicles[1].stop_wait_remaining = 30
    /\ (Ticked /\ TicksDone > 11 /\ TicksDone < 41) => vehicles[1].is_at_stop
    /\ (Ticked /\ TicksDone = 41) =>
          /\ ~vehicles[1].is_at_stop
          /\ vehicles[1].current_index = 2

\* the 41st tick of the scenario has run
C5_Witness ==
    /\ Ticked
    /\ TicksDone = 41
    /\ ~vehicles[1].is_at_stop
    /\ vehicles[1].current_index = 2

\* C6: set_route_coordinates called with an empty list leaves the coordinate
\* sequence and every vehicle's current_position, current_index, is_at_stop and
\* stop_wait_remaining unchanged.
C6_EmptyRouteChangesNothing ==
    (Replaced /\ call.arg = <<>>) =>
        /\ coordinates = call.old_coordinates
        /\ Len(vehicles) = Len(call.old_vehicles)
        /\ \A k \in Fleet : SameMotionState(vehicles[k], Before(k))

\* set_route_coordinates has been called with an empty list while a vehicle
\* was Dwelling away from its starting coordinate
C6_Witness ==
    /\ Replaced
    /\ call.arg = <<>>
    /\ \E k \in Fleet : Before(k).is_at_stop /\ Before(k).stop_wait_remaining > 0

\* C7: set_route_coordinates called with a non-empty list of length L, with N
\* vehicles, gives vehicle number i (from 0) current_index = min(floor(i*L/N),
\* L-1), current_position = the new coordinate at that index, is_at_stop =
\* false and stop_wait_remaining = 0; the stops, the vehicles' ids and speeds
\* and last_update are unchanged.
C7_RouteReplaced ==
    (Replaced /\ call.arg # <<>>) =>
        LET L == Len(call.arg)
            N == Len(call.old_vehicles)
        IN  /\ coordinates = call.arg
            /\ Len(vehicles) = N
            /\ \A k \in 1..N :
                  LET floor == CHOOSE q \in 0..((k - 1) * L) :
                                   q * N <= (k - 1) * L /\ (k - 1) * L < (q + 1) * N
                      index == IF floor < L - 1 THEN floor ELSE L - 1
                  IN  /\ vehicles[k].current_index = index
                      /\ vehicles[k].current_position = call.arg[index + 1]
                      /\ vehicles[k].is_at_stop = FALSE
                      /\ vehicles[k].stop_wait_remaining = 0
                      /\ vehicles[k].id = Before(k).id
                      /\ vehicles[k].speed_kmh = Before(k).speed_kmh
            /\ stops = call.old_stops
            /\ last_update = call.old_last_update

\* a route of another length has replaced the route while a vehicle was
\* Dwelling and the fleet had more than one vehicle
C7_Witness ==
    /\ Replaced
    /\ call.arg # <<>>
    /\ Len(call.arg) # Len(call.old_coordinates)
    /\ Len(vehicles) > 1
    /\ \E k \in Fleet : Before(k).is_at_stop /\ Before(k).stop_wait_remaining > 0

\* the distance a vehicle covers in the last tick: speed_kmh / 3600 km per
\* second, 720 units per km
Covered(v) == (v.speed_kmh * call.elapsed_seconds) \div 5

Gap(p, q) == Abs(q[1] - p[1]) + Abs(q[2] - p[2])

\* a vehicle that was Traveling, away from its target coordinate, when the
\* last tick began
WasUnderWay(k) ==
    /\ Traveling(Before(k))
    /\ Before(k).current_index < Len(coordinates)
    /\ Gap(Before(k).current_position, Target(Before(k))) > 0

\* C8: for a Traveling vehicle with distanceToTarget > 0, a tick with
\* moveDistance >= distanceToTarget puts current_position exactly on the target
\* coordinate, and a tick with moveDistance < distanceToTarget puts it on the
\* segment from the old position to the target, at the fraction moveDistance /
\* distanceToTarget; the vehicle is never past its target after the tick.
C8_SnapOrInterpolate ==
    Ticked =>
        \A k \in Fleet :
            WasUnderWay(k) =>
                LET old == Before(k).current_position
                    new == vehicles[k].current_position
                    target == Target(Before(k))
                    distance == Gap(old, target)
                IN  /\ IF Covered(Before(k)) >= distance
                       THEN new = target
                       ELSE \A c \in 1..2 :
                               (new[c] - old[c]) * distance
                                  = (target[c] - old[c]) * Covered(Before(k))
                    /\ Gap(old, new) + Gap(new, target) = distance

\* a tick has run in which a vehicle's moveDistance was exactly its
\* distanceToTarget, and it stands on the target
C8_Witness ==
    /\ Ticked
    /\ \E k \in Fleet :
          /\ WasUnderWay(k)
          /\ Covered(Before(k)) = Gap(Before(k).current_position, Target(Before(k)))
          /\ vehicles[k].current_position = Target(Before(k))

Known(stop_name) == \E j \in 1..Len(stops) : stops[j].name = stop_name
InFleet(vehicle_id) == \E k \in Fleet : vehicles[k].id = vehicle_id
IsError(ret, message) ==
    /\ DOMAIN ret = {"eta_minutes", "error"}
    /\ ret.error = message
    /\ ret.eta_minutes = None

\* C9: calculate_eta_to_stop, and calculate_eta_for_vehicle for a vehicle of
\* the fleet, called with a stop name that matches no configured stop return
\* the 'Stop not found' error with eta_minutes = None; calculate_eta_for_vehicle
\* called with a vehicle id that matches no vehicle returns the 'Vehicle not
\* found' error with eta_minutes = None; and no call with an unknown stop name
\* returns a numeric ETA.
C9_NotFound ==
    /\ (call.op = "calculate_eta_to_stop" /\ ~Known(call.stop_name)) =>
          IsError(call.ret, "Stop not found")
    /\ (call.op = "calculate_eta_for_vehicle" /\ InFleet(call.vehicle_id)
           /\ ~Known(call.stop_name)) =>
          IsError(call.ret, "Stop not found")
    /\ (call.op = "calculate_eta_for_vehicle" /\ ~InFleet(call.vehicle_id)) =>
          IsError(call.ret, "Vehicle not found")
    /\ (call.op \in {"calculate_eta_to_stop", "calculate_eta_for_vehicle"}
           /\ ~Known(call.stop_name)) =>
          ("error" \in DOMAIN call.ret /\ call.ret.eta_minutes = None)

\* the ETA of a vehicle of the fleet other than the first, under way, to an
\* unknown stop has been asked for
C9_Witness ==
    /\ call.op = "calculate_eta_for_vehicle"
    /\ ~Known(call.stop_name)
    /\ \E k \in Fleet :
          /\ k > 1
          /\ vehicles[k].id = call.vehicle_id
          /\ ~OnTarget(vehicles[k])
    /\ IsError(call.ret, "Stop not found")

EtaQueries == {"calculate_eta_to_stop", "calculate_eta_for_vehicle"}

----------------------------------------------------------------------------

QueryOps ==
    { "get_status", "find_nearest_stop", "calculate_eta_to_stop",
      "calculate_eta_for_vehicle", "get_all_eta", "get_vehicles",
      "get_vehicles_for_stops" }
Queried == call.op \in QueryOps

\* C11: a query operation (get_status, find_nearest_stop, calculate_eta_to_stop,
\* calculate_eta_for_vehicle, get_all_eta, get_vehicles, get_vehicles_for_stops)
\* leaves the coordinate list, the stop list, every field of every vehicle and
\* the last-update timestamp as they were when it was called.
C11_QueriesChangeNothing ==
    Queried =>
        /\ coordinates = call.old_coordinates
        /\ stops = call.old_stops
        /\ vehicles = call.old_vehicles
        /\ num_vehicles = Len(call.old_vehicles)
        /\ last_update = call.old_last_update

\* find_nearest_stop has returned a stop, with its distance, after a tick
C11_Witness ==
    /\ call.op = "find_nearest_stop"
    /\ "distance" \in DOMAIN call.ret
    /\ last_update > 0

----------------------------------------------------------------------------

\* an ETA query for a vehicle of the fleet and a configured stop has returned
EtaAsked ==
    /\ call.op \in EtaQueries
    /\ Known(call.stop_name)
    /\ call.op = "calculate_eta_for_vehicle" => InFleet(call.vehicle_id)

AskedVehicle ==
    IF call.op = "calculate_eta_to_stop" THEN vehicles[1]
    ELSE vehicles[CHOOSE k \in Fleet : vehicles[k].id = call.vehicle_id]

AskedStop ==
    stops[CHOOSE j \in 1..Len(stops) :
              /\ stops[j].name = call.stop_name
              /\ \A i \in 1..(j - 1) : stops[i].name # call.stop_name]

StopPoint(s) == <<s.lat, s.lon>>

\* the indices from the vehicle's current_index on whose coordinate lies within
\* 0.05 km of the stop
Reaching(v, s) ==
    { i \in v.current_index..(Len(coordinates) - 1) :
          Gap(At(coordinates, i), StopPoint(s)) * 20 < UnitsPerKm }

Least(S) == CHOOSE i \in S : \A j \in S : i <= j

RECURSIVE Segments(_, _)
\* the length of the route from coordinate i to coordinate j
Segments(i, j) ==
    IF i >= j THEN 0
    ELSE Gap(At(coordinates, i), At(coordinates, i + 1)) + Segments(i + 1, j)

RemainingDistance(v, s) ==
    Gap(v.current_position, At(coordinates, v.current_index))
    + Segments(v.current_index, Least(Reaching(v, s)))

Numeric(ret) == DOMAIN ret = {"eta_minutes", "eta_time", "distance_km"}

\* C13: for an existing vehicle and an existing stop, calculate_eta_for_vehicle
\* (also when reached through calculate_eta_to_stop) returns the 'Stop not on
\* remaining route' error exactly when no coordinate with index in
\* [current_index, len(coordinates) - 1] lies within 0.05 km of the stop;
\* otherwise it returns a numeric ETA whose distance_km is, rounded to metres,
\* the distance from the current position to coordinate current_index plus the
\* segment lengths from current_index up to the first such coordinate.
C13_UnreachableOrDistance ==
    EtaAsked =>
        IF Reaching(AskedVehicle, AskedStop) = {}
        THEN IsError(call.ret, "Stop not on remaining route")
        ELSE /\ Numeric(call.ret)
             /\ call.ret.distance_km =
                    RoundDiv(RemainingDistance(AskedVehicle, AskedStop) * 1000,
                             UnitsPerKm)

\* a numeric ETA for a vehicle between two coordinates whose stop is reached
\* only at a coordinate after the one it is heading for
C13_Witness ==
    /\ EtaAsked
    /\ Reaching(AskedVehicle, AskedStop) # {}
    /\ Least(Reaching(AskedVehicle, AskedStop)) > AskedVehicle.current_index
    /\ ~OnTarget(AskedVehicle)
    /\ Numeric(call.ret)

----------------------------------------------------------------------------

\* seconds of dwell of the stops between the vehicle and the stop asked for
InterveningWaits(v, s) ==
    SumWaits(v.current_position, stops, Gap(v.current_position, StopPoint(s)), 1)

\* tenths of a minute: travel time over the distance d at the vehicle's speed
\* plus w seconds of waiting
RoundedMinutes(v, d, w) == RoundDiv(5 * d + w * v.speed_kmh, 6 * v.speed_kmh)

\* C14: the ETA returned by calculate_eta_for_vehicle includes the vehicle's
\* dwell-remaining only when the vehicle is Dwelling; for a Traveling vehicle,
\* one that has just finished a dwell included, eta_minutes is the travel time
\* plus the dwell time of the intervening stops and nothing else.
C14_DwellRemainingOnlyWhenDwelling ==
    (EtaAsked /\ Numeric(call.ret)) =>
        LET v == AskedVehicle
            s == AskedStop
            own == IF v.is_at_stop THEN v.stop_wait_remaining ELSE 0
        IN  call.ret.eta_minutes =
                RoundedMinutes(v, RemainingDistance(v, s), InterveningWaits(v, s) + own)

----------------------------------------------------------------------------

\* the ordinal of a name among the configured stops: the number of stops in
\* front of the first one that bears it
Ordinal(stop_name) ==
    Cardinality({ j \in 1..Len(stops) : \A i \in 1..j : stops[i].name # stop_name })

NotPast(to_stop) == { k \in Fleet : vehicles[k].current_index <= Ordinal(to_stop) }

\* the j-th smallest member of a set of numbers
Nth(S, j) == CHOOSE k \in S : Cardinality({ i \in S : i < k }) = j - 1

\* C15: get_vehicles_for_stops(from, to) returns an empty list when either name
\* is not a configured stop or when the ordinal of 'from' among the configured
\* stops is not strictly less than that of 'to'; otherwise it returns exactly
\* the vehicles whose current_index is <= the ordinal of 'to', in fleet order,
\* each as its id, position and current_index.
C15_VehiclesForStops ==
    call.op = "get_vehicles_for_stops" =>
        IF \/ ~Known(call.stop_name)
           \/ ~Known(call.to_stop)
           \/ ~(Ordinal(call.stop_name) < Ordinal(call.to_stop))
        THEN call.ret = <<>>
        ELSE /\ Len(call.ret) = Cardinality(NotPast(call.to_stop))
             /\ \A j \in 1..Len(call.ret) :
                    LET v == vehicles[Nth(NotPast(call.to_stop), j)]
                    IN  call.ret[j] =
                            [ id |-> v.id,
                              position |-> [lat |-> v.current_position[1],
                                            lon |-> v.current_position[2]],
                              current_index |-> v.current_index ]

\* after a tick, a query between two configured stops in their order returns
\* a vehicle whose index equals the ordinal of 'to' and leaves out one past it
C15_Witness ==
    /\ call.op = "get_vehicles_for_stops"
    /\ last_update > 0
    /\ Known(call.stop_name) /\ Known(call.to_stop)
    /\ Ordinal(call.stop_name) < Ordinal(call.to_stop)
    /\ \E j \in 1..Len(call.ret) : call.ret[j].current_index = Ordinal(call.to_stop)
    /\ Len(call.ret) < Len(vehicles)

----------------------------------------------------------------------------

\* C16: on every tick that a vehicle begins Dwelling its current_position is
\* unchanged by that tick, the tick on which the dwell expires included: the
\* elapsed time left over once the dwell has run out does not move the vehicle.
C16_NoMoveWhileDwelling ==
    Ticked =>
        \A k \in Fleet :
            Before(k).is_at_stop =>
                vehicles[k].current_position = Before(k).current_position

\* a dwell has expired on a tick longer than what remained of it, and the
\* vehicle has been released towards a further coordinate
C16_Witness ==
    /\ Ticked
    /\ \E k \in Fleet :
          /\ Before(k).is_at_stop
          /\ Traveling(vehicles[k])
          /\ vehicles[k].stop_wait_remaining < 0
          /\ vehicles[k].current_index = Before(k).current_index + 1
          /\ ~OnTarget(vehicles[k])

----------------------------------------------------------------------------

\* the vehicle was under way when the last tick began and the tick carried it
\* as far as its target coordinate
Snapped(k) ==
    /\ WasUnderWay(k)
    /\ Covered(Before(k)) >= Gap(Before(k).current_position, Target(Before(k)))

\* the configured stops within 0.02 km of a point, by their place in the list
StopsAround(point) ==
    { j \in 1..Len(stops) : Gap(point, StopPoint(stops[j])) * 50 < UnitsPerKm }

\* C17: when a Traveling vehicle snaps onto its target coordinate in a tick,
\* then, if some configured stop lies within 0.02 km of that coordinate, the
\* vehicle is Dwelling with dwell-remaining equal to the dwell duration of the
\* first such stop in configured order and its current_index is unchanged;
\* if none does, it stays Traveling and current_index becomes
\* min(current_index + 1, len(coordinates) - 1).
C17_SnapDwellsOrAdvances ==
    Ticked =>
        \A k \in Fleet :
            Snapped(k) =>
                LET around == StopsAround(Target(Before(k))) IN
                IF around # {}
                THEN /\ vehicles[k].is_at_stop
                     /\ vehicles[k].stop_wait_remaining = stops[Least(around)].wait_time
                     /\ vehicles[k].current_index = Before(k).current_index
                ELSE /\ Traveling(vehicles[k])
                     /\ vehicles[k].current_index =
                            Min(Before(k).current_index + 1, Len(coordinates) - 1)

\* a vehicle has snapped onto a coordinate with two stops of different dwell
\* durations within 0.02 km, and dwells for the duration of the first
C17_Witness ==
    /\ Ticked
    /\ \E k \in Fleet :
          /\ Snapped(k)
          /\ \E i, j \in StopsAround(Target(Before(k))) :
                 i < j /\ stops[i].wait_time # stops[j].wait_time
          /\ vehicles[k].is_at_stop
          /\ vehicles[k].stop_wait_remaining =
                 stops[Least(StopsAround(Target(Before(k))))].wait_time

----------------------------------------------------------------------------

\* C18: each call of update_positions sets last_update once, to the time read
\* at the start of the call, and its elapsed time is that reading minus the
\* previous last_update; so the elapsed times of all ticks add up to the time
\* from construction (time 0) to the latest tick, and neither a query nor
\* set_route_coordinates changes last_update.
C18_TimestampOncePerTick ==
    /\ Ticked =>
          /\ last_update = clock
          /\ call.elapsed_seconds = clock - call.old_last_update
    /\ elapsed_total = last_update
    /\ (Queried \/ Replaced) => last_update = call.old_last_update

\* a tick with a positive elapsed time that follows an earlier such tick
C18_Witness ==
    /\ Ticked
    /\ call.old_last_update > 0
    /\ call.elapsed_seconds > 0
    /\ elapsed_total = call.old_last_update + call.elapsed_seconds

----------------------------------------------------------------------------

C20_DwellingOnStopCoordinate ==
    \A k \in Fleet :
        vehicles[k].is_at_stop =>
            /\ vehicles[k].current_position = Target(vehicles[k])
            /\ StopsAround(Target(vehicles[k])) # {}

\* a vehicle still dwelling after a tick it began dwelling
C20_Witness ==
    /\ Ticked
    /\ \E k \in Fleet :
          /\ Before(k).is_at_stop
          /\ vehicles[k].is_at_stop
          /\ vehicles[k].stop_wait_remaining > 0

----------------------------------------------------------------------------

\* the fleet a whole tick makes of the fleet it began with
WholeTick(before, elapsed_seconds) ==
    [k \in 1..Len(before) |->
        AdvanceVehicle(before[k], elapsed_seconds, coordinates, stops)]

\* C12: however the updater task, the startup route replacement and the query
\* handlers interleave on the event loop, the fleet a query observes is the
\* fleet as it was before the latest tick began or that fleet with every
\* vehicle advanced by the tick, never one with only some vehicles advanced;
\* and never are two executions of update_positions under way at once.
C12_TicksAreAtomic ==
    /\ updater.executions <= 1
    /\ (Queried /\ updater.before # <<>>) =>
          \/ call.old_vehicles = updater.before
          \/ call.old_vehicles = WholeTick(updater.before, updater.elapsed_seconds)

\* a query has run after a tick that changed both vehicles of a fleet of two
C12_Witness ==
    /\ Queried
    /\ updater.pc = "sleeping"
    /\ Len(updater.before) = 2
    /\ \A k \in 1..2 : call.old_vehicles[k] # updater.before[k]
    /\ updater.elapsed_seconds > 0

----------------------------------------------------------------------------

\* C21: a vehicle enters Dwelling only on a tick in which it travels a strictly
\* positive distance and snaps onto its target coordinate; a Traveling vehicle
\* whose position already equals its target coordinate (as right after
\* construction or route replacement) has its index advanced (by 1, clamped to
\* the last index) and does not dwell or move, even when that coordinate is
\* within 0.02 km of a stop.
C21_DwellOnlyAfterTravel ==
    Ticked =>
        \A k \in Fleet :
            /\ (Traveling(Before(k)) /\ vehicles[k].is_at_stop) =>
                  /\ Snapped(k)
                  /\ Gap(Before(k).current_position, vehicles[k].current_position) > 0
                  /\ vehicles[k].current_position = Target(Before(k))
            /\ (Traveling(Before(k)) /\ OnTarget(Before(k))) =>
                  /\ Traveling(vehicles[k])
                  /\ vehicles[k].current_position = Before(k).current_position
                  /\ vehicles[k].current_index =
                         Min(Before(k).current_index + 1, Len(coordinates) - 1)

\* a Traveling vehicle standing on a coordinate within 0.02 km of a stop has
\* been ticked with a positive elapsed time: its index has moved on and it
\* does not dwell
C21_Witness ==
    /\ Ticked
    /\ call.elapsed_seconds > 0
    /\ \E k \in Fleet :
          /\ Traveling(Before(k))
          /\ OnTarget(Before(k))
          /\ StopsAround(Target(Before(k))) # {}
          /\ Traveling(vehicles[k])
          /\ vehicles[k].current_index = Before(k).current_index + 1

----------------------------------------------------------------------------

\* C23: no tick of update_positions changes the coordinate sequence, the
\* configured stops, the number of vehicles, or any vehicle's id or speed; and
\* in every reachable state the fleet has the size it was built with (the
\* requested number, at least 1) and the ids it was built with, "bus-1",
\* "bus-2", ..., which are pairwise distinct.
C23_FleetIsFixed ==
    /\ Ticked =>
          /\ coordinates = call.old_coordinates
          /\ stops = call.old_stops
          /\ Len(vehicles) = Len(call.old_vehicles)
          /\ \A k \in Fleet :
                /\ vehicles[k].id = Before(k).id
                /\ vehicles[k].speed_kmh = Before(k).speed_kmh
    /\ num_vehicles = (IF requested < 1 THEN 1 ELSE requested)
    /\ Len(vehicles) = num_vehicles
    /\ \A k \in Fleet : vehicles[k].id = "bus-" \o ToString(k)
    /\ \A j, k \in Fleet : j # k => vehicles[j].id # vehicles[k].id

\* a tick has changed both vehicles of a fleet of two on a replaced route
C23_Witness ==
    /\ Ticked
    /\ Len(vehicles) = 2
    /\ \A k \in Fleet : vehicles[k] # Before(k)
    /\ \A file \in RouteFiles : coordinates # file.coordinates

----------------------------------------------------------------------------

AllAtLastCoordinate == \A k \in Fleet : AtLastCoordinate(k)

\* C22: with no route replacement, as ticks with a strictly positive elapsed
\* time go on for ever (speeds are positive, dwell durations finite), every
\* vehicle eventually has current_index = len(coordinates) - 1 and stands on
\* the last route coordinate.
C22_EveryVehicleReachesTheEnd == <>AllAtLastCoordinate

\* a fleet of two has arrived on the last coordinate, one vehicle having begun
\* to dwell at an earlier coordinate on its way
C22_Witness ==
    /\ Ticked
    /\ Len(vehicles) = 2
    /\ AllAtLastCoordinate
    /\ \E k \in Fleet :
          /\ dwell_log[k].entry_index >= 0
          /\ dwell_log[k].entry_index < Len(coordinates) - 1
          /\ dwell_log[k].duration > 0

====
